---- MODULE Spec2Model ----
(***************************************************************************)
(* The same-game model Same_M (src/samegame/same_model.py) together with   *)
(* the part of its only listener, Same_V.model_event, that reads the model *)
(* while a notification is being delivered.                                *)
(*                                                                         *)
(* The matrix is indexed as in the source: matrix[row][col], rows and      *)
(* columns counted from 0, row 0 at the top.                               *)
(***************************************************************************)
EXTENDS Integers, Sequences, FiniteSets, TLC

\* Number of rows and columns of the board, and length the listener list may
\* reach.
Rows == 3
Cols == 3
MaxListeners == 1

\* The values list handed to the constructor (two distinct positive values,
\* as in the module's own test, Same_M(4, 4, [7, 8], 1)).
Values == {7, 8}

\* The callables handed to register_listener.
ListenerIds == {"model_event"}

RowIdx == 0 .. (Rows - 1)
ColIdx == 0 .. (Cols - 1)
\* Python's None, as a value comparable with a match matrix.
None == << >>

VARIABLES
    matrix,     \* Same_M.matrix
    score,      \* Same_M.score
    listeners,  \* Same_M.listeners
    call,       \* the last call made on the model: operation and arguments
    before,     \* matrix, score and listeners when that call began
    result,     \* what get_neighbours returned inside that call
    steps,      \* the statements of select_blocks passed in that call, in
                \* order, each with the matrix and score it left behind
    delivered,  \* the listener invocations of that call, in order, each with
                \* the matrix and score the listener reads from the model
    raised,     \* the exception that call ended with, "" when it returned
    rng,        \* the state of the generator of Python's random module, one
                \* per process
    other,      \* a second Same_M object of the same process, with what its
                \* last call returned
    python,     \* the major version of the interpreter that runs the process
    twin,       \* the generator and the second object of a process that
                \* began as this one and never made or used the first object
    selection,  \* Same_V.selection
    loop,       \* the position and the locals of a call that is under way,
                \* where a call is followed statement by statement
    statestack, \* StateMachine.statestack of code-02, the top last
    running     \* GameEngine.running

vars == <<matrix, score, listeners, call, before, result, steps, delivered,
          raised, rng, python, other, twin, selection, loop, statestack,
          running>>

\* What lies outside a lone Same_M object.
outside == <<rng, python, other, twin, selection, loop, statestack, running>>

----------------------------------------------------------------------------
(* Helpers on matrices *)

\* row.count(1)
count1(row) == Cardinality({c \in ColIdx : row[c] = 1})

\* [v for x in range(n)], indexed from 0
RECURSIVE repeat(_, _)
repeat(v, n) == IF n = 1 THEN (0 :> v) ELSE repeat(v, n - 1) @@ ((n - 1) :> v)

\* [[0 for x in range(self.cols)] for y in range(self.rows)]
zeros == repeat(repeat(0, Cols), Rows)

\* The position a list of n items takes an index for: Python counts a
\* negative index from the end of the list.
idx(i, n) == IF i < 0 THEN i + n ELSE i

\* An index a list of n items accepts; any other raises IndexError.
InRange(i, n) == -n <= i /\ i < n

\* mx[row][col]
item(mx, row, col) == mx[idx(row, Rows)][idx(col, Cols)]

\* mx[row][col] = v
put(mx, row, col, v) == [mx EXCEPT ![idx(row, Rows)][idx(col, Cols)] = v]

\* hotspot in tested
InList(x, list) == \E i \in 1 .. Len(list) : list[i] = x

----------------------------------------------------------------------------
(* Same_M.get_neighbours *)

\* mark_hotspots with the neighbour test widened from "equal in value" to
\* "not empty".
mark_hotspots_any(m, st, row, col, n_row, n_col) ==
    IF item(m, n_row, n_col) # 0 /\ ~InList(<<n_row, n_col>>, st.tested)
    THEN [matches |-> put(st.matches, n_row, n_col, 1),
          stack   |-> Append(st.stack, <<n_row, n_col>>),
          tested  |-> Append(st.tested, <<n_row, n_col>>)]
    ELSE st

\* The local function mark_hotspots: st holds the locals matches, stack and
\* tested of the enclosing call.
mark_hotspots(m, st, row, col, n_row, n_col) ==
    IF item(m, row, col) = item(m, n_row, n_col)
       /\ ~InList(<<n_row, n_col>>, st.tested)
    THEN [matches |-> put(st.matches, n_row, n_col, 1),
          stack   |-> Append(st.stack, <<n_row, n_col>>),
          tested  |-> Append(st.tested, <<n_row, n_col>>)]
    ELSE st

\* The while loop over the stack: pop a cell, test west, east, north, south.
RECURSIVE flood(_, _)
flood(m, st) ==
    IF ~(Len(st.stack) > 0) THEN st
    ELSE LET top == st.stack[Len(st.stack)]
             row == top[1]
             col == top[2]
             s0  == [st EXCEPT !.stack = SubSeq(st.stack, 1, Len(st.stack) - 1)]
             s1  == IF col > 0
                    THEN mark_hotspots(m, s0, row, col, row, col - 1) ELSE s0
             s2  == IF col < Cols - 1
                    THEN mark_hotspots(m, s1, row, col, row, col + 1) ELSE s1
             s3  == IF row > 0
                    THEN mark_hotspots(m, s2, row, col, row - 1, col) ELSE s2
             s4  == IF row < Rows - 1
                    THEN mark_hotspots(m, s3, row, col, row + 1, col) ELSE s3
         IN  flood(m, s4)

RECURSIVE sum_count1(_, _)
sum_count1(mx, r) ==
    IF r >= Rows THEN 0 ELSE count1(mx[r]) + sum_count1(mx, r + 1)

\* get_neighbours with the size test off by one: a lone cell is a match.
get_neighbours_single(m, row, col) ==
    IF item(m, row, col) = 0 THEN None
    ELSE LET st == flood(m, [matches |-> put(zeros, row, col, 1),
                             stack   |-> << <<row, col>> >>,
                             tested  |-> << <<row, col>> >>])
         IN  IF sum_count1(st.matches, 0) > 0 THEN st.matches ELSE None

get_neighbours(m, row, col) ==
    IF item(m, row, col) = 0 THEN None
    ELSE LET st == flood(m, [matches |-> put(zeros, row, col, 1),
                             stack   |-> << <<row, col>> >>,
                             tested  |-> << <<row, col>> >>])
         IN  IF sum_count1(st.matches, 0) > 1 THEN st.matches ELSE None

----------------------------------------------------------------------------
(* Same_M.calc_score, Same_M.__remove_matches *)

\* calc_score without the doubling.
calc_score_single(matches) == sum_count1(matches, 0)

calc_score(matches) == sum_count1(matches, 0) * 2

\* The two nested for loops writing the mark itself, matches[r][c], into the
\* matrix.
RECURSIVE remove_matches_from_copying(_, _, _, _)
remove_matches_from_copying(m, matches, r, c) ==
    IF r >= Rows THEN m
    ELSE IF c >= Cols THEN remove_matches_from_copying(m, matches, r + 1, 0)
    ELSE remove_matches_from_copying(
             IF matches[r][c] = 1 THEN put(m, r, c, matches[r][c]) ELSE m,
             matches, r, c + 1)

\* The two nested for loops writing to matrix[c][r] for the mark at [r][c].
RECURSIVE remove_matches_from_transposed(_, _, _, _)
remove_matches_from_transposed(m, matches, r, c) ==
    IF r >= Rows THEN m
    ELSE IF c >= Cols THEN remove_matches_from_transposed(m, matches, r + 1, 0)
    ELSE remove_matches_from_transposed(
             IF matches[r][c] = 1 THEN put(m, c, r, 0) ELSE m,
             matches, r, c + 1)

\* The two nested for loops, at cell (r, c).
RECURSIVE remove_matches_from(_, _, _, _)
remove_matches_from(m, matches, r, c) ==
    IF r >= Rows THEN m
    ELSE IF c >= Cols THEN remove_matches_from(m, matches, r + 1, 0)
    ELSE remove_matches_from(
             IF matches[r][c] = 1 THEN put(m, r, c, 0) ELSE m,
             matches, r, c + 1)

\* select_blocks with the removal left out.
remove_matches_skipped(m, matches) == m

remove_matches(m, matches) == remove_matches_from(m, matches, 0, 0)

----------------------------------------------------------------------------
(* Same_M.notify and the listener Same_V.model_event *)

\* A callable that raises when it is called.  Same_V.model_event does not.
Raises(listener) == listener = "faulty"

\* for listener in self.listeners: listener(event_name, data).  Each
\* invocation is recorded with the model state the listener finds.  The loop
\* has no try: what a listener raises leaves the loop and the method.
\* The loop taking the listeners from the one registered last to the one
\* registered first.
RECURSIVE notify_from_newest_first(_, _, _, _, _, _)
notify_from_newest_first(ls, i, event_name, data, m, sc) ==
    IF i > Len(ls) THEN << >>
    ELSE << [listener |-> ls[Len(ls) + 1 - i], name |-> event_name,
             data |-> data, matrix |-> m, score |-> sc] >>
         \o (IF Raises(ls[Len(ls) + 1 - i]) THEN << >>
             ELSE notify_from_newest_first(ls, i + 1, event_name, data, m, sc))

RECURSIVE notify_from(_, _, _, _, _, _)
notify_from(ls, i, event_name, data, m, sc) ==
    IF i > Len(ls) THEN << >>
    ELSE << [listener |-> ls[i], name |-> event_name, data |-> data,
             matrix |-> m, score |-> sc] >>
         \o (IF Raises(ls[i]) THEN << >>
             ELSE notify_from(ls, i + 1, event_name, data, m, sc))

notify(ls, event_name, data, m, sc) == notify_from(ls, 1, event_name, data, m, sc)

\* The last listener invoked raised: the exception is on its way up through
\* notify, __shift_down and select_blocks to the caller.
propagating(st) ==
    Len(st.delivered) > 0 /\ Raises(st.delivered[Len(st.delivered)].listener)

----------------------------------------------------------------------------
(* Same_M.__shift_down *)

\* The inner loop without the step back down after a swap: the dropped cell
\* is not examined again.
RECURSIVE shift_down_col_no_recheck(_, _, _, _, _)
shift_down_col_no_recheck(st, ls, sc, c, r) ==
    IF ~(r > -1) THEN st
    ELSE IF st.matrix[r][c] > 0 /\ st.matrix[r + 1][c] = 0
         THEN LET m1   == put(put(st.matrix, r + 1, c, st.matrix[r][c]), r, c, 0)
                  data == << <<r, c>>, <<r + 1, c>> >>
                  st1  == [matrix    |-> m1,
                           emitted   |-> Append(st.emitted,
                                           [at |-> "notify", name |-> "drop_cell",
                                            data |-> data,
                                            matrix |-> m1, score |-> sc]),
                           delivered |-> st.delivered \o
                                           notify(ls, "drop_cell", data, m1, sc)]
              IN  shift_down_col_no_recheck(st1, ls, sc, c, r - 1)
         ELSE shift_down_col_no_recheck(st, ls, sc, c, r - 1)

\* The inner loop with a swap that copies the cell down and does not empty
\* the cell it came from.
RECURSIVE shift_down_col_copy(_, _, _, _, _)
shift_down_col_copy(st, ls, sc, c, r) ==
    IF ~(r > -1) THEN st
    ELSE IF st.matrix[r][c] > 0 /\ st.matrix[r + 1][c] = 0
         THEN LET m1   == put(st.matrix, r + 1, c, st.matrix[r][c])
                  data == << <<r, c>>, <<r + 1, c>> >>
                  st1  == [matrix    |-> m1,
                           emitted   |-> Append(st.emitted,
                                           [at |-> "notify", name |-> "drop_cell",
                                            data |-> data,
                                            matrix |-> m1, score |-> sc]),
                           delivered |-> st.delivered \o
                                           notify(ls, "drop_cell", data, m1, sc)]
              IN  shift_down_col_copy(st1, ls, sc, c,
                                      IF r < Rows - 2 THEN r + 1 ELSE r)
         ELSE shift_down_col_copy(st, ls, sc, c, r - 1)

\* The inner loop with the listeners told before the two cells are switched.
RECURSIVE shift_down_col_notify_first(_, _, _, _, _)
shift_down_col_notify_first(st, ls, sc, c, r) ==
    IF ~(r > -1) THEN st
    ELSE IF st.matrix[r][c] > 0 /\ st.matrix[r + 1][c] = 0
         THEN LET m1   == put(put(st.matrix, r + 1, c, st.matrix[r][c]), r, c, 0)
                  data == << <<r, c>>, <<r + 1, c>> >>
                  st1  == [matrix    |-> m1,
                           emitted   |-> Append(st.emitted,
                                           [at |-> "notify", name |-> "drop_cell",
                                            data |-> data,
                                            matrix |-> st.matrix, score |-> sc]),
                           delivered |-> st.delivered \o
                                           notify(ls, "drop_cell", data, st.matrix, sc)]
              IN  shift_down_col_notify_first(st1, ls, sc, c,
                                              IF r < Rows - 2 THEN r + 1 ELSE r)
         ELSE shift_down_col_notify_first(st, ls, sc, c, r - 1)

\* The inner while loop on column c, counter at r.  st holds the matrix, the
\* notify calls made so far (emitted) and the listener invocations so far.
RECURSIVE shift_down_col(_, _, _, _, _)
shift_down_col(st, ls, sc, c, r) ==
    IF ~(r > -1) THEN st
    ELSE IF st.matrix[r][c] > 0 /\ st.matrix[r + 1][c] = 0
         THEN LET m1   == put(put(st.matrix, r + 1, c, st.matrix[r][c]), r, c, 0)
                  data == << <<r, c>>, <<r + 1, c>> >>
                  st1  == [matrix    |-> m1,
                           emitted   |-> Append(st.emitted,
                                           [at |-> "notify", name |-> "drop_cell",
                                            data |-> data,
                                            matrix |-> m1, score |-> sc]),
                           delivered |-> st.delivered \o
                                           notify(ls, "drop_cell", data, m1, sc)]
              IN  IF propagating(st1) THEN st1
                  ELSE shift_down_col(st1, ls, sc, c,
                                      IF r < Rows - 2 THEN r + 1 ELSE r)
         ELSE shift_down_col(st, ls, sc, c, r - 1)

\* for c in range(self.cols - 0)
RECURSIVE shift_down_from(_, _, _, _)
shift_down_from(st, ls, sc, c) ==
    IF c >= Cols \/ propagating(st) THEN st
    ELSE shift_down_from(shift_down_col(st, ls, sc, c, Rows - 2), ls, sc, c + 1)

shift_down(m, ls, sc) ==
    shift_down_from([matrix |-> m, emitted |-> << >>, delivered |-> << >>],
                    ls, sc, 0)

----------------------------------------------------------------------------
(* Same_M.__shift_left *)

\* The column test looking at the top row only.
isempty_top(m, col) == ~(m[0][col] > 0)

isempty(m, col) == ~ \E row \in RowIdx : m[row][col] > 0

\* for row in range(0, self.rows):
\*     matrix[row][col] = matrix[row][col + 1]; matrix[row][col + 1] = 0
\* copyleft without the clearing of the column copied from.
RECURSIVE copyleft_from_keep(_, _, _)
copyleft_from_keep(m, col, row) ==
    IF row >= Rows THEN m
    ELSE copyleft_from_keep(put(m, row, col, m[row][col + 1]), col, row + 1)

RECURSIVE copyleft_from(_, _, _)
copyleft_from(m, col, row) ==
    IF row >= Rows THEN m
    ELSE copyleft_from(put(put(m, row, col, m[row][col + 1]), row, col + 1, 0),
                       col, row + 1)

copyleft(m, col) == copyleft_from(m, col, 0)

\* The column scan that goes on to the next column after a shift instead of
\* starting again from the left edge.
RECURSIVE shift_left_from_no_restart(_, _)
shift_left_from_no_restart(m, col) ==
    IF ~(col < Cols - 1) THEN m
    ELSE IF isempty(m, col) /\ ~isempty(m, col + 1)
         THEN shift_left_from_no_restart(copyleft(m, col), col + 1)
         ELSE shift_left_from_no_restart(m, col + 1)

RECURSIVE shift_left_from(_, _)
shift_left_from(m, col) ==
    IF ~(col < Cols - 1) THEN m
    ELSE IF isempty(m, col) /\ ~isempty(m, col + 1)
         THEN shift_left_from(copyleft(m, col), 0)
         ELSE shift_left_from(m, col + 1)

shift_left(m) == shift_left_from(m, 0)

----------------------------------------------------------------------------
(* The state machine *)

\* A statement of select_blocks that has completed, with the state it left.
Step(at, m, sc) ==
    [at |-> at, name |-> "", data |-> << >>, matrix |-> m, score |-> sc]

Snapshot ==
    [matrix |-> matrix, score |-> score, listeners |-> listeners,
     selection |-> selection]

\* Same_M.__init__: score 0, no listeners, every cell a random choice of
\* values.
Init ==
    /\ matrix \in [RowIdx -> [ColIdx -> Values]]
    /\ score = 0
    /\ listeners = << >>
    /\ call = [op |-> "__init__", row |-> 0, col |-> 0]
    /\ before = [matrix |-> matrix, score |-> 0, listeners |-> << >>,
                 selection |-> None]
    /\ result = None
    /\ steps = << >>
    /\ delivered = << >>
    /\ raised = ""
    /\ rng = 0
    /\ python = 3
    /\ other = None
    /\ twin = None
    /\ selection = None
    /\ loop = None
    /\ statestack = << >>
    /\ running = FALSE

\* Same_M.register_listener
register_listener(listener) ==
    /\ listeners' = Append(listeners, listener)
    /\ raised' = ""
    /\ call' = [op |-> "register_listener", row |-> 0, col |-> 0]
    /\ before' = Snapshot
    /\ result' = None
    /\ steps' = << >>
    /\ delivered' = << >>
    /\ UNCHANGED <<matrix, score>>

\* get_neighbours marking the hot cells in self.matrix instead of in its
\* local matches.
GetNeighboursMarking(row, col) ==
    \E m \in {get_neighbours(matrix, row, col)} :
    /\ call' = [op |-> "get_neighbours", row |-> row, col |-> col]
    /\ before' = Snapshot
    /\ result' = m
    /\ steps' = << >>
    /\ delivered' = << >>
    /\ matrix' = IF m = None THEN matrix
                 ELSE [r \in RowIdx |-> [c \in ColIdx |->
                          IF m[r][c] = 1 THEN 1 ELSE matrix[r][c]]]
    /\ raised' = ""
    /\ UNCHANGED <<score, listeners>>

\* A call of Same_M.get_neighbours from outside (the preview of Same_C and
\* Same_V).  self.matrix[row][col] raises IndexError for an index the list
\* does not accept.
GetNeighbours(row, col) ==
    /\ call' = [op |-> "get_neighbours", row |-> row, col |-> col]
    /\ before' = Snapshot
    /\ IF InRange(row, Rows) /\ InRange(col, Cols)
       THEN /\ result' = get_neighbours(matrix, row, col)
            /\ raised' = ""
       ELSE /\ result' = None
            /\ raised' = "IndexError"
    /\ steps' = << >>
    /\ delivered' = << >>
    /\ UNCHANGED <<matrix, score, listeners>>

\* select_blocks with the score added after the two passes instead of
\* before the removal.
SelectBlocksScoreLast(row, col) ==
    \E m \in {get_neighbours(matrix, row, col)} :
    /\ call' = [op |-> "select_blocks", row |-> row, col |-> col]
    /\ before' = Snapshot
    /\ result' = m
    /\ IF m # None
       THEN \E removed \in {remove_matches(matrix, m)} :
            \E down \in {shift_down(removed, listeners, score)} :
            \E left \in {shift_left(down.matrix)} :
            \E sc \in {score + calc_score(m)} :
                /\ matrix' = left
                /\ score' = sc
                /\ steps' =
                     << Step("remove_matches", removed, score) >>
                     \o down.emitted
                     \o << Step("shift_down", down.matrix, score),
                           Step("shift_left", left, score),
                           Step("score", left, sc) >>
                /\ delivered' = down.delivered
       ELSE /\ steps' = << >>
            /\ delivered' = << >>
            /\ UNCHANGED <<matrix, score>>
    /\ raised' = ""
    /\ UNCHANGED listeners

\* Same_M.select_blocks on an object with matrix m0, score sc0 and listeners
\* ls: the fields it leaves, what get_neighbours returned, the statements
\* passed, the listener invocations and the exception it ends with.
select_blocks(m0, sc0, ls, row, col) ==
    LET m == get_neighbours(m0, row, col)
    IN  IF m = None
        THEN [matrix |-> m0, score |-> sc0, result |-> None, steps |-> << >>,
              delivered |-> << >>, raised |-> ""]
        ELSE LET sc      == sc0 + calc_score(m)
                 removed == remove_matches(m0, m)
                 down    == shift_down(removed, ls, sc)
                 begun   == << Step("score", m0, sc),
                               Step("remove_matches", removed, sc) >>
                            \o down.emitted
             IN  IF propagating(down)
                 THEN [matrix |-> down.matrix, score |-> sc, result |-> m,
                       steps |-> begun, delivered |-> down.delivered,
                       raised |-> "Exception"]
                 ELSE LET left == shift_left(down.matrix)
                      IN  [matrix |-> left, score |-> sc, result |-> m,
                           steps |-> begun \o
                                     << Step("shift_down", down.matrix, sc),
                                        Step("shift_left", left, sc) >>,
                           delivered |-> down.delivered, raised |-> ""]

\* A call of Same_M.select_blocks from outside.
SelectBlocks(row, col) ==
    \E done \in {select_blocks(matrix, score, listeners, row, col)} :
    /\ call' = [op |-> "select_blocks", row |-> row, col |-> col]
    /\ before' = Snapshot
    /\ result' = done.result
    /\ matrix' = done.matrix
    /\ score' = done.score
    /\ steps' = done.steps
    /\ delivered' = done.delivered
    /\ raised' = done.raised
    /\ UNCHANGED listeners

Next ==
    \/ \E l \in ListenerIds :
           Len(listeners) < MaxListeners /\ register_listener(l)
                                         /\ UNCHANGED outside
    \/ \E row \in RowIdx, col \in ColIdx :
           GetNeighbours(row, col) /\ UNCHANGED outside
    \/ \E row \in RowIdx, col \in ColIdx :
           SelectBlocks(row, col) /\ UNCHANGED outside

Spec == Init /\ [][Next]_vars

----------------------------------------------------------------------------
(* Vocabulary of the properties *)

Cells == RowIdx \X ColIdx

Abs(x) == IF x < 0 THEN -x ELSE x

\* Up, down, left or right of each other; never diagonal.
Adjacent(p, q) == Abs(p[1] - q[1]) + Abs(p[2] - q[2]) = 1

\* The least set of cells that holds S and every cell of value v adjacent to
\* one of its members.
RECURSIVE Closure(_, _, _)
Closure(m, v, S) ==
    LET N == S \cup {q \in Cells : m[q[1]][q[2]] = v /\ \E p \in S : Adjacent(p, q)}
    IN  IF N = S THEN S ELSE Closure(m, v, N)

\* The maximal 4-connected region of cells that share the seed's value.
Region(m, row, col) == Closure(m, m[row][col], {<<row, col>>})

\* The cells a match matrix marks.
Marked(matches) == {p \in Cells : matches[p[1]][p[2]] = 1}

\* The match matrix that marks exactly the cells of S.
MarkOf(S) == [r \in RowIdx |-> [c \in ColIdx |-> IF <<r, c>> \in S THEN 1 ELSE 0]]

\* m with the cells of S emptied and every other cell as it was.
Zeroed(m, S) ==
    [r \in RowIdx |-> [c \in ColIdx |-> IF <<r, c>> \in S THEN 0 ELSE m[r][c]]]

\* The non-empty values of column c from row r down, top to bottom.
RECURSIVE ColSeq(_, _, _)
ColSeq(m, c, r) ==
    IF r >= Rows THEN << >>
    ELSE (IF m[r][c] # 0 THEN << m[r][c] >> ELSE << >>) \o ColSeq(m, c, r + 1)

\* Every column holds the same non-empty values in the same order in a and b.
SameColumns(a, b) == \A c \in ColIdx : ColSeq(a, c, 0) = ColSeq(b, c, 0)

\* In every column the empty cells are above the non-empty ones.
Settled(m) ==
    \A c \in ColIdx : \A r \in 0 .. (Rows - 2) : m[r][c] # 0 => m[r + 1][c] # 0

ColEmpty(m, c) == \A r \in RowIdx : m[r][c] = 0

NonEmptyCells(m) == {p \in Cells : m[p[1]][p[2]] # 0}

\* The last call was a select_blocks that found a match.
Committed == call.op = "select_blocks" /\ result # None

\* The steps of the last commit.
AfterRemove == steps[2].matrix
AfterDown == steps[Len(steps) - 1].matrix
NotifyIdx == 3 .. (Len(steps) - 2)

----------------------------------------------------------------------------
\* C1: get_neighbours returns the match matrix that marks exactly the maximal
\* 4-connected region of cells equal in value to the seed cell, the seed
\* included, and returns None when the seed cell is 0 or that region has
\* fewer than 2 cells.
C1_Connectivity ==
    call.op \in {"get_neighbours", "select_blocks"} =>
        \E reg \in {Region(before.matrix, call.row, call.col)} :
            IF before.matrix[call.row][call.col] = 0 \/ Cardinality(reg) < 2
            THEN result = None
            ELSE /\ result = MarkOf(reg)
                 /\ <<call.row, call.col>> \in Marked(result)

\* A preview that returned a region of at least three cells while a cell of
\* the same value elsewhere on the board stayed out of it.
C1_Witness ==
    /\ call.op = "get_neighbours"
    /\ result # None
    /\ Cardinality(Marked(result)) >= 3
    /\ \E p \in Cells \ Marked(result) :
           before.matrix[p[1]][p[2]] = before.matrix[call.row][call.col]

\* C2: the score never decreases, and a select_blocks call that finds a
\* match increases it by exactly twice the number of matched cells; any
\* other call leaves it as it was.
C2_Score ==
    /\ score >= before.score
    /\ Committed =>
           score = before.score
                   + 2 * Cardinality(Region(before.matrix, call.row, call.col))
    /\ ~Committed => score = before.score

\* A second commit: the score was already positive and grew again.
C2_Witness ==
    /\ Committed
    /\ before.score > 0
    /\ score > before.score + 4

\* C3: right after a select_blocks call that found a match, no non-empty
\* cell has an empty cell directly below it.
C3_VerticalCollapse == Committed => Settled(matrix)

\* A commit that left cells hanging over a gap of two rows and over a gap of
\* one row, which the collapse had to close.
C3_Witness ==
    /\ Committed
    /\ ~Settled(AfterRemove)
    /\ \E c \in ColIdx : \E r \in 0 .. (Rows - 3) :
           AfterRemove[r][c] # 0 /\ AfterRemove[r + 1][c] = 0
                                 /\ AfterRemove[r + 2][c] = 0
    /\ NonEmptyCells(matrix) # {}

\* C4: right after a select_blocks call that found a match, no entirely
\* empty column is left of a column that holds a non-empty cell.
C4_HorizontalCollapse ==
    Committed =>
        \A c1, c2 \in ColIdx :
            (c1 < c2 /\ ColEmpty(matrix, c1)) => ColEmpty(matrix, c2)

\* A commit whose vertical collapse left an empty column left of a
\* non-empty one.
C4_Witness ==
    /\ Committed
    /\ \E c1, c2 \in ColIdx :
           c1 < c2 /\ ColEmpty(AfterDown, c1) /\ ~ColEmpty(AfterDown, c2)

\* C5: select_blocks on a cell that is empty, or whose region is the cell
\* alone, leaves every cell and the score unchanged and emits no drop_cell
\* notification.
C5_NoMatchNoEffect ==
    (/\ call.op = "select_blocks"
     /\ \/ before.matrix[call.row][call.col] = 0
        \/ Region(before.matrix, call.row, call.col) = {<<call.row, call.col>>})
    => /\ matrix = before.matrix
       /\ score = before.score
       /\ steps = << >>
       /\ delivered = << >>

\* select_blocks on an isolated non-empty cell while a listener is
\* registered and other cells remain on the board.
C5_Witness ==
    /\ call.op = "select_blocks"
    /\ before.matrix[call.row][call.col] # 0
    /\ Region(before.matrix, call.row, call.col) = {<<call.row, call.col>>}
    /\ Len(listeners) > 0
    /\ before.score > 0

\* C6: get_neighbours never mutates the model: matrix, score and listener
\* list are the same after the call as before it, whether it returns a
\* match matrix or None.
C6_PreviewIsPure ==
    call.op = "get_neighbours" =>
        /\ matrix = before.matrix
        /\ score = before.score
        /\ listeners = before.listeners
        /\ steps = << >>
        /\ delivered = << >>

\* A preview that returned a match matrix on a board that a commit had
\* already changed, with a listener registered.
C6_Witness ==
    /\ call.op = "get_neighbours"
    /\ result # None
    /\ Len(listeners) > 0
    /\ score > 0

\* C7: a committing select_blocks adds to the score, then zeroes the matched
\* cells, then collapses vertically, then collapses horizontally.  Every
\* drop_cell notification is delivered with the score already increased and
\* the matched cells already removed, and with every column still at the
\* index it had before the commit.
C7_FixedOrder ==
    Committed =>
        \E n \in {Len(steps)} :
        \E reg \in {Region(before.matrix, call.row, call.col)} :
            /\ n >= 4
            /\ steps[1].at = "score"
            /\ steps[1].matrix = before.matrix
            /\ steps[1].score = before.score + 2 * Cardinality(reg)
            /\ steps[2].at = "remove_matches"
            /\ steps[2].matrix = Zeroed(before.matrix, reg)
            /\ \A i \in 3 .. (n - 2) :
                   /\ steps[i].at = "notify"
                   /\ SameColumns(steps[i].matrix, Zeroed(before.matrix, reg))
            /\ steps[n - 1].at = "shift_down"
            /\ SameColumns(steps[n - 1].matrix, Zeroed(before.matrix, reg))
            /\ steps[n].at = "shift_left"
            /\ steps[n].matrix = matrix
            /\ \A i \in 2 .. n : steps[i].score = steps[1].score
            /\ score = steps[1].score
            /\ \A i \in 1 .. Len(delivered) :
                   /\ delivered[i].score = before.score + 2 * Cardinality(reg)
                   /\ SameColumns(delivered[i].matrix, Zeroed(before.matrix, reg))

\* A commit that delivered a drop_cell notification and afterwards shifted a
\* column left.
C7_Witness ==
    /\ Committed
    /\ Len(delivered) > 0
    /\ AfterDown # matrix

\* C8: after __shift_down each column holds the non-empty values it held
\* before, in the same top-to-bottom order, as a contiguous run that ends at
\* the bottom row; no value changes column, appears, disappears or changes.
C8_ShiftDownStable ==
    Committed =>
        /\ SameColumns(AfterDown, AfterRemove)
        /\ Settled(AfterDown)
        /\ \A c \in ColIdx :
               \E k \in {Len(ColSeq(AfterRemove, c, 0))} :
                   \A r \in RowIdx :
                       AfterDown[r][c] =
                           IF r < Rows - k THEN 0
                           ELSE ColSeq(AfterRemove, c, 0)[r - (Rows - k) + 1]

\* A vertical collapse that moved two cells of different value down one
\* column.
C8_Witness ==
    /\ Committed
    /\ \E c \in ColIdx :
           /\ Len(ColSeq(AfterRemove, c, 0)) >= 2
           /\ ColSeq(AfterRemove, c, 0)[1] # ColSeq(AfterRemove, c, 0)[2]
           /\ AfterRemove[Rows - 1][c] = 0

----------------------------------------------------------------------------
(* Compaction of the columns by one left-to-right pass with a write cursor *)

\* Column src of m copied to column dst of out.
RECURSIVE CopyColumn(_, _, _, _, _)
CopyColumn(out, m, dst, src, r) ==
    IF r >= Rows THEN out
    ELSE CopyColumn([out EXCEPT ![r][dst] = m[r][src]], m, dst, src, r + 1)

\* The read cursor at column src, the write cursor at column w.
RECURSIVE CompactFrom(_, _, _, _)
CompactFrom(out, m, src, w) ==
    IF src >= Cols THEN out
    ELSE IF ColEmpty(m, src) THEN CompactFrom(out, m, src + 1, w)
         ELSE CompactFrom(CopyColumn(out, m, w, src, 0), m, src + 1, w + 1)

Compact(m) == CompactFrom(zeros, m, 0, 0)

\* C9: the result of __shift_left equals the result of one left-to-right
\* write-cursor compaction: the non-empty columns, cell for cell, in their
\* original order at the leftmost indices, and every other column empty.
C9_ShiftLeftIsCompaction == Committed => matrix = Compact(AfterDown)

\* A horizontal collapse of a board whose two leftmost columns were empty
\* and whose next column was not.
C9_Witness ==
    /\ Committed
    /\ ColEmpty(AfterDown, 0)
    /\ ColEmpty(AfterDown, 1)
    /\ ~ColEmpty(AfterDown, 2)

\* A horizontal collapse of a board with two empty columns that were not
\* adjacent.
C9_WitnessApart ==
    /\ Committed
    /\ ColEmpty(AfterDown, 0)
    /\ ~ColEmpty(AfterDown, 1)
    /\ ColEmpty(AfterDown, 2)

----------------------------------------------------------------------------
\* The board after the move an event describes.
Move(m, data) ==
    [m EXCEPT ![data[2][1]][data[2][2]] = m[data[1][1]][data[1][2]],
              ![data[1][1]][data[1][2]] = 0]

\* The events from the i-th on replayed on m.
RECURSIVE Replay(_, _, _)
Replay(m, events, i) ==
    IF i > Len(events) THEN m ELSE Replay(Move(m, events[i].data), events, i + 1)

\* The number of empty cells below cell p in its column.
GapsBelow(m, p) ==
    Cardinality({r \in RowIdx : r > p[1] /\ m[r][p[2]] = 0})

RECURSIVE SumGaps(_, _)
SumGaps(m, S) ==
    IF S = {} THEN 0
    ELSE LET p == CHOOSE q \in S : TRUE
         IN  GapsBelow(m, p) + SumGaps(m, S \ {p})

\* The notify calls of the last commit, in order.
Emitted == SubSeq(steps, 3, Len(steps) - 2)

----------------------------------------------------------------------------
(* A host that registers listeners of its own, one of which raises *)

\* Length the listener list may reach when a host registers its own.
MaxObservers == 2

\* The callables such a host hands to register_listener: the view's, and one
\* that raises when called.
HostListenerIds == {"model_event", "faulty"}

\* No caller of select_blocks in the repository has a try: an exception ends
\* the program, so nothing follows it.
NextFaulty ==
    \/ \E l \in HostListenerIds :
           /\ raised = ""
           /\ Len(listeners) < MaxObservers
           /\ register_listener(l)
           /\ UNCHANGED outside
    \/ \E row \in RowIdx, col \in ColIdx :
           raised = "" /\ SelectBlocks(row, col) /\ UNCHANGED outside

SpecFaulty == Init /\ [][NextFaulty]_vars

\* The notify calls of the last call, in order, wherever the call ended.
Notified == SelectSeq(steps, LAMBDA s : s.at = "notify")

\* C11: when several listeners are registered and one of them raises while
\* it handles a notification, every listener, those registered after it
\* included, still receives that notification, and the commit still runs both
\* compaction passes to their end.
C11_FaultyListenerIsolated ==
    (/\ Committed
     /\ Len(listeners) >= 2
     /\ \E i \in 1 .. Len(delivered) : Raises(delivered[i].listener))
    => /\ Len(delivered) = Len(Notified) * Len(listeners)
       /\ \A k \in 1 .. Len(Notified) : \A j \in 1 .. Len(listeners) :
              \E d \in {delivered[(k - 1) * Len(listeners) + j]} :
                  d.listener = listeners[j] /\ d.data = Notified[k].data
       /\ Len(steps) >= 4
       /\ steps[Len(steps) - 1].at = "shift_down"
       /\ steps[Len(steps)].at = "shift_left"
       /\ Settled(matrix)
       /\ matrix = Compact(matrix)

----------------------------------------------------------------------------
(* A host that registers two listeners, neither of which raises *)

\* The callables of such a host: the model_event methods of two views.
ViewListenerIds == {"model_event", "model_event_2"}

NextViews ==
    \/ \E l \in ViewListenerIds :
           /\ Len(listeners) < MaxObservers
           /\ register_listener(l)
           /\ UNCHANGED outside
    \/ \E row \in RowIdx, col \in ColIdx :
           SelectBlocks(row, col) /\ UNCHANGED outside

SpecViews == Init /\ [][NextViews]_vars

\* C12: every notification is delivered, before the call that emitted it
\* returns and with the model as it was when it was emitted, to all
\* registered listeners in the order of their registration; all of them
\* receive event k before any of them receives event k + 1.
C12_DeliveryInRegistrationOrder ==
    \E n \in {Len(listeners)} :
        /\ Len(delivered) = Len(Notified) * n
        /\ \A k \in 1 .. Len(Notified) : \A j \in 1 .. n :
               \E d \in {delivered[(k - 1) * n + j]} :
                   /\ d.listener = listeners[j]
                   /\ d.name = Notified[k].name
                   /\ d.data = Notified[k].data
                   /\ d.matrix = Notified[k].matrix
                   /\ d.score = Notified[k].score
        /\ listeners = before.listeners \/
               (call.op = "register_listener" /\ n = Len(before.listeners) + 1
                /\ SubSeq(listeners, 1, n - 1) = before.listeners)

\* A commit that emitted two different events while two different listeners
\* were registered.
C12_Witness ==
    /\ Committed
    /\ Len(listeners) = 2
    /\ listeners[1] # listeners[2]
    /\ Len(Notified) >= 2
    /\ Notified[1].data # Notified[2].data

----------------------------------------------------------------------------
(* get_neighbours called with any pair of integers *)

\* The rows and columns a caller may name: those of the board, those that
\* Python takes as counted from the end, and one beyond at either side.
RowArgs == (-Rows - 1) .. Rows
ColArgs == (-Cols - 1) .. Cols

\* No caller of get_neighbours in the repository has a try: nothing follows
\* an IndexError.
NextAnywhere ==
    \E row \in RowArgs, col \in ColArgs :
        raised = "" /\ GetNeighbours(row, col) /\ UNCHANGED outside

SpecAnywhere == Init /\ [][NextAnywhere]_vars

\* C13: get_neighbours called with a row outside 0..rows-1 or a col outside
\* 0..cols-1, negative ones included, is rejected: the call fails, it returns
\* no match matrix, and matrix and score are as before.
C13_OutOfBoundsRejected ==
    (/\ call.op = "get_neighbours"
     /\ call.row \notin RowIdx \/ call.col \notin ColIdx)
    => /\ raised # ""
       /\ result = None
       /\ matrix = before.matrix
       /\ score = before.score

----------------------------------------------------------------------------
(* Same_M.__init__ with any arguments, and the generator of random *)

\* The generator of the random module is stood in for by a generator with
\* RngModulus states: random.seed(s) sets its state from s alone, and each
\* random.choice moves it on one step and picks by the new state.
RngModulus == 16

\* random.seed(seed)
rng_seed(seed) == seed % RngModulus

\* The step of the generator.
rng_step(x) == (5 * x + 3) % RngModulus

\* random.choice(values) for a non-empty list, on the state just stepped to.
choice(x, values) == values[((x * Len(values)) \div RngModulus) + 1]

\* [random.choice(values) for x in range(cols)] from column c on; st holds
\* the generator and the row built so far.
RECURSIVE init_row(_, _, _, _)
init_row(st, values, cols, c) ==
    IF c >= cols THEN st
    ELSE \* random.choice raises IndexError for an empty list
         IF Len(values) = 0 THEN [st EXCEPT !.raised = "IndexError"]
         ELSE init_row([rng    |-> rng_step(st.rng),
                        list   |-> st.list @@ (c :> choice(rng_step(st.rng), values)),
                        raised |-> ""],
                       values, cols, c + 1)

\* [[...] for y in range(rows)] from row r on.
RECURSIVE init_rows(_, _, _, _, _)
init_rows(st, values, cols, rows, r) ==
    IF r >= rows \/ st.raised # "" THEN st
    ELSE LET one == init_row([rng |-> st.rng, list |-> << >>, raised |-> ""],
                             values, cols, 0)
         IN  init_rows([rng    |-> one.rng,
                        list   |-> IF one.raised = ""
                                   THEN st.list @@ (r :> one.list) ELSE st.list,
                        raised |-> one.raised],
                       values, cols, rows, r + 1)

\* Same_M.__init__(cols, rows, values, seed) in a process whose generator is
\* in state x: the fields of the new object, the generator afterwards and the
\* exception raised.  "if seed:" is false for 0 as it is for None.
init(cols, rows, values, seed, x) ==
    LET st == init_rows([rng    |-> IF seed # 0 THEN rng_seed(seed) ELSE x,
                         list   |-> << >>, raised |-> ""],
                        values, cols, rows, 0)
    IN  [matrix |-> st.list, score |-> 0, listeners |-> << >>,
         rng |-> st.rng, raised |-> st.raised]

\* The largest size handed to the constructor; the smallest is -1.
MaxDim == 2

\* The lists of values and the seeds handed to the constructor.
ValueLists == {<< >>, <<7>>, <<7, 8>>}
Seeds == {0, 1, 2}

\* A process that has imported same_model and holds no Same_M yet; its
\* generator was seeded by the system.
InitProcess ==
    /\ rng \in 0 .. (RngModulus - 1)
    /\ matrix = None
    /\ score = 0
    /\ listeners = << >>
    /\ call = [op |-> "import"]
    /\ before = [matrix |-> None, score |-> 0, listeners |-> << >>,
                 selection |-> None]
    /\ result = None
    /\ steps = << >>
    /\ delivered = << >>
    /\ raised = ""
    /\ python = 3
    /\ other = None
    /\ twin = None
    /\ selection = None
    /\ loop = None
    /\ statestack = << >>
    /\ running = FALSE

\* model = Same_M(cols, rows, values, seed): when __init__ raises there is no
\* object and the name keeps what it held.
Construct(cols, rows, values, seed) ==
    \E new \in {init(cols, rows, values, seed, rng)} :
    /\ call' = [op |-> "__init__", cols |-> cols, rows |-> rows,
                values |-> values, seed |-> seed]
    /\ before' = Snapshot
    /\ raised' = new.raised
    /\ rng' = new.rng
    /\ IF new.raised = ""
       THEN /\ matrix' = new.matrix
            /\ score' = new.score
            /\ listeners' = new.listeners
       ELSE UNCHANGED <<matrix, score, listeners>>
    /\ result' = None
    /\ steps' = << >>
    /\ delivered' = << >>

NextConstruct ==
    \E cols \in -1 .. MaxDim, rows \in -1 .. MaxDim :
        \E values \in ValueLists, seed \in Seeds :
            Construct(cols, rows, values, seed)
                /\ UNCHANGED <<python, other, twin, selection, loop,
                   statestack, running>>

SpecConstruct == InitProcess /\ [][NextConstruct]_vars

\* C14: constructing Same_M with cols <= 0, with rows <= 0 or with an empty
\* list of values fails; no object whose matrix has no row or an empty row
\* is ever produced.
C14_InvalidConfigurationFails ==
    call.op = "__init__" =>
        /\ (call.cols <= 0 \/ call.rows <= 0 \/ call.values = << >>)
               => raised # ""
        /\ raised = "" =>
               /\ DOMAIN matrix # {}
               /\ \A r \in DOMAIN matrix : DOMAIN matrix[r] # {}

----------------------------------------------------------------------------
(* Two Same_M objects constructed one after the other with the same
   arguments, then given the same calls *)

\* The values list of the boards, as the list the constructor is handed.
ValuesList == <<7, 8>>

\* a = Same_M(cols, rows, values, seed); b = Same_M(cols, rows, values, seed)
ConstructPair(seed) ==
    /\ matrix = None
    /\ other = None
    /\ \E a \in {init(Cols, Rows, ValuesList, seed, rng)} :
       \E b \in {init(Cols, Rows, ValuesList, seed, a.rng)} :
           /\ matrix' = a.matrix
           /\ score' = a.score
           /\ listeners' = a.listeners
           /\ other' = [matrix |-> b.matrix, score |-> b.score,
                        listeners |-> b.listeners, result |-> None]
           /\ rng' = b.rng
    /\ call' = [op |-> "__init__", cols |-> Cols, rows |-> Rows,
                values |-> ValuesList, seed |-> seed]
    /\ before' = Snapshot
    /\ result' = None
    /\ steps' = << >>
    /\ delivered' = << >>
    /\ raised' = ""
    /\ UNCHANGED <<python, twin, selection, loop,
                   statestack, running>>

\* a.get_neighbours(row, col); b.get_neighbours(row, col)
PreviewBoth(row, col) ==
    /\ other # None
    /\ GetNeighbours(row, col)
    /\ other' = [other EXCEPT !.result = get_neighbours(other.matrix, row, col)]
    /\ UNCHANGED <<rng, python, twin, selection, loop,
                   statestack, running>>

\* a.select_blocks(row, col); b.select_blocks(row, col)
SelectBoth(row, col) ==
    /\ other # None
    /\ SelectBlocks(row, col)
    /\ \E done \in {select_blocks(other.matrix, other.score, other.listeners,
                                  row, col)} :
           other' = [other EXCEPT !.matrix = done.matrix,
                                  !.score  = done.score,
                                  !.result = done.result]
    /\ UNCHANGED <<rng, python, twin, selection, loop,
                   statestack, running>>

NextPair ==
    \/ \E seed \in Seeds : ConstructPair(seed)
    \/ \E row \in RowIdx, col \in ColIdx : PreviewBoth(row, col)
    \/ \E row \in RowIdx, col \in ColIdx : SelectBoth(row, col)

SpecPair == InitProcess /\ [][NextPair]_vars

\* C15: for every integer seed, two boards constructed with the same cols,
\* rows, values and seed start with the same matrix and, given the same
\* get_neighbours / select_blocks calls, have the same matrix, the same score
\* and the same returned result after every call.
C15_DeterministicReplay ==
    other # None =>
        /\ matrix = other.matrix
        /\ score = other.score
        /\ result = other.result

----------------------------------------------------------------------------
\* C16: __remove_matches sets exactly the cells marked in the match matrix to
\* 0 and leaves every unmarked cell as it was, and applying it a second time
\* with the same match matrix gives the board the first application gave.
C16_RemoveMatches ==
    Committed =>
        /\ \A p \in Cells :
               AfterRemove[p[1]][p[2]] =
                   IF result[p[1]][p[2]] = 1 THEN 0
                   ELSE before.matrix[p[1]][p[2]]
        /\ remove_matches(remove_matches(before.matrix, result), result)
               = remove_matches(before.matrix, result)
        /\ remove_matches(before.matrix, result) = AfterRemove

\* A commit on a board that already had empty cells, which removed three or
\* more cells and left others in place.
C16_Witness ==
    /\ Committed
    /\ before.score > 0
    /\ Cardinality(Marked(result)) >= 3
    /\ NonEmptyCells(AfterRemove) # {}
    /\ \E p \in Marked(result) : p[1] # p[2]

----------------------------------------------------------------------------
(* The game of same.py: a model, its view and its controller, driven by
   mouse clicks *)

\* The window of same.py is 300 pixels wide and high for 20 columns and 20
\* rows; here it is 2 pixels for each column and each row.
SCREEN_WIDTH == 2 * Cols
SCREEN_HEIGHT == 2 * Rows

\* a / b on two ints: the floor of the quotient, an int, in Python 2; a float
\* in Python 3, which no list accepts as an index.
divide(a, b) == [int |-> python = 2, floor |-> a \div b]

\* Same_V.__init__: self.block_size = pixel_width / model.cols
block_size == divide(SCREEN_WIDTH, Cols)

\* Same_V.convert_mousepos(pos), pos = (x, y):
\*     return pos[1] / self.block_size, pos[0] / self.block_size
convert_mousepos(pos) ==
    [int |-> block_size.int,
     row |-> divide(pos[2], block_size.floor).floor,
     col |-> divide(pos[1], block_size.floor).floor]

\* The model, the view and the controller as same.py constructs them: the
\* view has registered its model_event and nothing is selected.
InitGame ==
    /\ matrix \in [RowIdx -> [ColIdx -> Values]]
    /\ score = 0
    /\ listeners = << "model_event" >>
    /\ call = [op |-> "__init__", row |-> 0, col |-> 0]
    /\ before = [matrix |-> matrix, score |-> 0, listeners |-> << >>,
                 selection |-> None]
    /\ result = None
    /\ steps = << >>
    /\ delivered = << >>
    /\ raised = ""
    /\ rng = 0
    /\ python \in {2, 3}
    /\ other = None
    /\ twin = None
    /\ selection = None
    /\ loop = None
    /\ statestack = << >>
    /\ running = FALSE

\* process_input that commits whenever something is selected, whichever
\* cell is clicked.
ClickCommittingAnywhere(pos) ==
    \E at \in {convert_mousepos(pos)} :
    /\ raised = ""
    /\ IF ~at.int
       THEN /\ raised' = "TypeError"
            /\ call' = [op |-> "get_neighbours", row |-> at.row, col |-> at.col]
            /\ before' = Snapshot
            /\ UNCHANGED <<matrix, score, listeners, result, steps, delivered,
                           selection>>
       ELSE IF selection # None
            THEN /\ selection' = None
                 /\ SelectBlocks(at.row, at.col)
            ELSE /\ selection' = get_neighbours(matrix, at.row, at.col)
                 /\ GetNeighbours(at.row, at.col)
    /\ UNCHANGED <<rng, python, other, twin, loop, statestack, running>>

\* process_input that leaves the selection in place when it commits.
ClickKeepingSelection(pos) ==
    \E at \in {convert_mousepos(pos)} :
    /\ raised = ""
    /\ IF ~at.int
       THEN /\ raised' = "TypeError"
            /\ call' = [op |-> "get_neighbours", row |-> at.row, col |-> at.col]
            /\ before' = Snapshot
            /\ UNCHANGED <<matrix, score, listeners, result, steps, delivered,
                           selection>>
       ELSE IF selection # None /\ selection[at.row][at.col] # 0
            THEN /\ UNCHANGED selection
                 /\ SelectBlocks(at.row, at.col)
            ELSE /\ selection' = get_neighbours(matrix, at.row, at.col)
                 /\ GetNeighbours(at.row, at.col)
    /\ UNCHANGED <<rng, python, other, twin, loop,
                   statestack, running>>

\* Same_C.process_input on a MOUSEBUTTONDOWN event at pixel pos.  With a float
\* for row the first list indexed, self.matrix in get_neighbours when nothing
\* is selected, raises TypeError; nothing in same.py catches it.  The QUIT and
\* KEYDOWN events touch neither the model nor the view.
Click(pos) ==
    \E at \in {convert_mousepos(pos)} :
    /\ raised = ""
    /\ IF ~at.int
       THEN /\ raised' = "TypeError"
            /\ call' = [op |-> "get_neighbours", row |-> at.row, col |-> at.col]
            /\ before' = Snapshot
            /\ UNCHANGED <<matrix, score, listeners, result, steps, delivered,
                           selection>>
       ELSE IF selection # None /\ selection[at.row][at.col] # 0
            THEN /\ selection' = None
                 /\ SelectBlocks(at.row, at.col)
            ELSE /\ selection' = get_neighbours(matrix, at.row, at.col)
                 /\ GetNeighbours(at.row, at.col)
    /\ UNCHANGED <<rng, python, other, twin, loop,
                   statestack, running>>

NextGame ==
    \E x \in 0 .. (SCREEN_WIDTH - 1), y \in 0 .. (SCREEN_HEIGHT - 1) :
        Click(<<x, y>>)

SpecGame == InitGame /\ [][NextGame]_vars

\* The cells a commit emptied.
ZeroedByCommit ==
    {p \in Cells : before.matrix[p[1]][p[2]] # 0 /\ AfterRemove[p[1]][p[2]] = 0}

\* C17: under any sequence of clicks handled by process_input no commit acts
\* on a stale selection: a selection that is not None is what get_neighbours
\* returns on the board as it is now for some cell, and the cells a
\* committing click empties are exactly the cells that were highlighted when
\* it was made, whichever of them was clicked.
C17_NoStaleSelection ==
    /\ selection # None =>
           \* get_neighbours marks the cell it is asked about, so that cell
           \* is one of those the selection marks
           \E p \in Marked(selection) :
               selection = get_neighbours(matrix, p[1], p[2])
    /\ call.op = "select_blocks" =>
           /\ before.selection # None
           /\ <<call.row, call.col>> \in Marked(before.selection)
           /\ result = before.selection
           /\ ZeroedByCommit = Marked(before.selection)

\* A second commit, made by a click on a highlighted region of three or more
\* cells.
C17_Witness ==
    /\ call.op = "select_blocks"
    /\ before.score > 0
    /\ Cardinality(Marked(before.selection)) >= 3
    /\ matrix # before.matrix
    /\ selection = None

\* The cell the last click landed on.
Clicked == <<call.row, call.col>>

----------------------------------------------------------------------------
(* get_neighbours and select_blocks followed one loop iteration at a time,
   on boards of every size from 1 x 1 to Rows x Cols *)

\* The locals of a call are kept in the record loop:
\*   pc       where the call stands: "idle" (no call under way), "flood",
\*            "shift_down" or "shift_left"
\*   op       the method called from outside
\*   rows, cols, m, score   the fields of the Same_M object
\*   matches, stack, tested the locals of get_neighbours
\*   c, r     the counters of __shift_down; col is the counter of __shift_left
\*   n        the loop iterations the call has made
\*   swaps, copies  the switches of __shift_down and the copyleft calls of
\*            __shift_left the call has made

\* [[0 for x in range(cols)] for y in range(rows)]
zeros_of(rows, cols) == repeat(repeat(0, cols), rows)

\* isempty(col) of __shift_left on a matrix of the given number of rows.
isempty_of(m, rows, col) == ~ \E row \in 0 .. (rows - 1) : m[row][col] > 0

\* copyleft(col) of __shift_left on a matrix of the given number of rows.
RECURSIVE copyleft_of(_, _, _, _)
copyleft_of(m, rows, col, row) ==
    IF row >= rows THEN m
    ELSE copyleft_of([m EXCEPT ![row][col] = m[row][col + 1],
                               ![row][col + 1] = 0],
                     rows, col, row + 1)

\* __remove_matches on a matrix of the given size, from cell (r, c) on.
RECURSIVE remove_matches_of(_, _, _, _, _, _)
remove_matches_of(m, matches, rows, cols, r, c) ==
    IF r >= rows THEN m
    ELSE IF c >= cols THEN remove_matches_of(m, matches, rows, cols, r + 1, 0)
    ELSE remove_matches_of(
             IF matches[r][c] = 1 THEN [m EXCEPT ![r][c] = 0] ELSE m,
             matches, rows, cols, r, c + 1)

\* The number of 1s in a match matrix of the given size.
count_marks(matches, rows, cols) ==
    Cardinality({p \in (0 .. (rows - 1)) \X (0 .. (cols - 1)) :
                     matches[p[1]][p[2]] = 1})

\* A Same_M object on which no call is under way.
Idle(rows, cols, m, sc) ==
    [pc |-> "idle", op |-> "__init__", rows |-> rows, cols |-> cols,
     m |-> m, score |-> sc,
     matches |-> None, stack |-> << >>, tested |-> << >>,
     c |-> 0, r |-> 0, col |-> 0, n |-> 0, swaps |-> 0, copies |-> 0]

\* Same_M(cols, rows, values) for every size up to Rows x Cols and every
\* grid the random choices can give.
InitSteps ==
    /\ \E rows \in 1 .. Rows, cols \in 1 .. Cols :
       \E m \in [0 .. (rows - 1) -> [0 .. (cols - 1) -> Values]] :
           loop = Idle(rows, cols, m, 0)
    /\ matrix = None
    /\ score = 0
    /\ listeners = << >>
    /\ call = [op |-> "__init__", row |-> 0, col |-> 0]
    /\ before = [matrix |-> None, score |-> 0, listeners |-> << >>,
                 selection |-> None]
    /\ result = None
    /\ steps = << >>
    /\ delivered = << >>
    /\ raised = ""
    /\ rng = 0
    /\ python = 3
    /\ other = None
    /\ twin = None
    /\ selection = None
    /\ statestack = << >>
    /\ running = FALSE

\* What the steps of a call leave alone.
beside_loop ==
    <<matrix, score, listeners, call, before, result, steps, delivered,
      raised, rng, python, other, twin, selection, statestack, running>>

\* get_neighbours(row, col) or select_blocks(row, col) is called: the zero
\* test, then the locals of the flood fill are set up.
Begin(op, row, col) ==
    /\ loop.pc = "idle"
    /\ row \in 0 .. (loop.rows - 1)
    /\ col \in 0 .. (loop.cols - 1)
    /\ loop' = IF loop.m[row][col] = 0
               THEN [Idle(loop.rows, loop.cols, loop.m, loop.score)
                         EXCEPT !.op = op]
               ELSE [Idle(loop.rows, loop.cols, loop.m, loop.score)
                         EXCEPT !.pc = "flood", !.op = op,
                                !.matches = [zeros_of(loop.rows, loop.cols)
                                                 EXCEPT ![row][col] = 1],
                                !.stack = << <<row, col>> >>,
                                !.tested = << <<row, col>> >>]
    /\ UNCHANGED beside_loop

\* One iteration of "while len(stack) > 0" of get_neighbours; when the stack
\* is empty, the count test and the return, and for select_blocks the score,
\* __remove_matches and the entry into __shift_down.
FloodStep ==
    /\ loop.pc = "flood"
    /\ IF Len(loop.stack) > 0
       THEN LET top == loop.stack[Len(loop.stack)]
                row == top[1]
                col == top[2]
                s0  == [matches |-> loop.matches,
                        stack   |-> SubSeq(loop.stack, 1, Len(loop.stack) - 1),
                        tested  |-> loop.tested]
                s1  == IF col > 0
                       THEN mark_hotspots(loop.m, s0, row, col, row, col - 1)
                       ELSE s0
                s2  == IF col < loop.cols - 1
                       THEN mark_hotspots(loop.m, s1, row, col, row, col + 1)
                       ELSE s1
                s3  == IF row > 0
                       THEN mark_hotspots(loop.m, s2, row, col, row - 1, col)
                       ELSE s2
                s4  == IF row < loop.rows - 1
                       THEN mark_hotspots(loop.m, s3, row, col, row + 1, col)
                       ELSE s3
            IN  loop' = [loop EXCEPT !.matches = s4.matches,
                                     !.stack = s4.stack,
                                     !.tested = s4.tested,
                                     !.n = @ + 1]
       ELSE \E count \in {count_marks(loop.matches, loop.rows, loop.cols)} :
            IF count > 1 /\ loop.op = "select_blocks"
            THEN loop' = [loop EXCEPT
                             !.pc = "shift_down",
                             !.score = @ + count * 2,
                             !.m = remove_matches_of(loop.m, loop.matches,
                                                     loop.rows, loop.cols, 0, 0),
                             !.c = 0,
                             !.r = loop.rows - 2]
            ELSE loop' = [loop EXCEPT !.pc = "idle"]
    /\ UNCHANGED beside_loop

\* One iteration of "while r > -1" of __shift_down; when r is -1, the step
\* of the for loop to the next column, or past the last column into
\* __shift_left.
ShiftDownStep ==
    /\ loop.pc = "shift_down"
    /\ IF loop.r > -1
       THEN IF loop.m[loop.r][loop.c] > 0 /\ loop.m[loop.r + 1][loop.c] = 0
            THEN loop' = [loop EXCEPT
                             !.m = [loop.m EXCEPT
                                       ![loop.r + 1][loop.c] = loop.m[loop.r][loop.c],
                                       ![loop.r][loop.c] = 0],
                             !.r = IF loop.r < loop.rows - 2 THEN loop.r + 1
                                   ELSE loop.r,
                             !.swaps = @ + 1,
                             !.n = @ + 1]
            ELSE loop' = [loop EXCEPT !.r = loop.r - 1, !.n = @ + 1]
       ELSE IF loop.c + 1 < loop.cols
            THEN loop' = [loop EXCEPT !.c = loop.c + 1, !.r = loop.rows - 2]
            ELSE loop' = [loop EXCEPT !.pc = "shift_left", !.col = 0]
    /\ UNCHANGED beside_loop

\* The scan of __shift_left that starts again from the left edge whenever
\* the column it looks at is empty.
ShiftLeftStepRestarting ==
    /\ loop.pc = "shift_left"
    /\ IF loop.col < loop.cols - 1
       THEN IF isempty_of(loop.m, loop.rows, loop.col)
            THEN loop' = [loop EXCEPT
                             !.m = copyleft_of(loop.m, loop.rows, loop.col, 0),
                             !.col = 0,
                             !.copies = @ + 1,
                             !.n = @ + 1]
            ELSE loop' = [loop EXCEPT !.col = loop.col + 1, !.n = @ + 1]
       ELSE loop' = [loop EXCEPT !.pc = "idle"]
    /\ UNCHANGED beside_loop

\* One iteration of "while col < self.cols - 1" of __shift_left; when the
\* loop has ended, the return of select_blocks.
ShiftLeftStep ==
    /\ loop.pc = "shift_left"
    /\ IF loop.col < loop.cols - 1
       THEN IF /\ isempty_of(loop.m, loop.rows, loop.col)
               /\ ~isempty_of(loop.m, loop.rows, loop.col + 1)
            THEN loop' = [loop EXCEPT
                             !.m = copyleft_of(loop.m, loop.rows, loop.col, 0),
                             !.col = 0,
                             !.copies = @ + 1,
                             !.n = @ + 1]
            ELSE loop' = [loop EXCEPT !.col = loop.col + 1, !.n = @ + 1]
       ELSE loop' = [loop EXCEPT !.pc = "idle"]
    /\ UNCHANGED beside_loop

\* The statements of a call under way.
Run == FloodStep \/ ShiftDownStep \/ ShiftLeftStep

NextSteps ==
    \/ \E row \in RowIdx, col \in ColIdx : Begin("get_neighbours", row, col)
    \/ \E row \in RowIdx, col \in ColIdx : Begin("select_blocks", row, col)
    \/ FloodStep
    \/ ShiftDownStep
    \/ ShiftLeftStep

\* The interpreter goes on with a call until it returns.
SpecSteps == InitSteps /\ [][NextSteps]_vars /\ WF_vars(Run)

\* No cell occurs twice in a list of cells.
NoRepeat(list) ==
    \A i, j \in 1 .. Len(list) : i < j => list[i] # list[j]

\* The loop iterations a call can make on a board of the given size: one of
\* the flood fill for each cell; in each column of __shift_down one for each
\* switch, one for each time the counter is moved back down and one for each
\* row climbed; in __shift_left a scan of the columns before each copyleft
\* and a last one.
MaxIterations(rows, cols) ==
    rows * cols + cols * (rows * rows) + cols * (cols * cols)

\* C18: every call of get_neighbours and of select_blocks returns, on boards
\* of every size, those of one row or one column included: the flood fill
\* puts each cell on its stack at most once, the scan of each column in
\* __shift_down ends, and the scan of __shift_left that starts again after
\* each shift ends.  A call makes no more loop iterations than the size of
\* the board allows, and a call that is under way always has a next step.
C18_CallsTerminate ==
    /\ NoRepeat(loop.tested)
    /\ Len(loop.tested) <= loop.rows * loop.cols
    /\ \A i \in 1 .. Len(loop.stack) : InList(loop.stack[i], loop.tested)
    /\ loop.n <= MaxIterations(loop.rows, loop.cols)
    /\ loop.pc # "idle" => ENABLED Run

\* Every call that has begun returns.
C18_EveryCallReturns ==
    \A pc \in {"flood", "shift_down", "shift_left"} :
        (loop.pc = pc) ~> (loop.pc = "idle")

\* A select_blocks call that has returned on a board of one row after its
\* flood fill went through three cells and its column scan started again,
\* and one on a board of one column after a cell fell.
C18_Witness ==
    /\ loop.pc = "idle"
    /\ loop.op = "select_blocks"
    /\ loop.n > 0
    /\ \/ loop.rows = 1 /\ Len(loop.tested) >= 2 /\ loop.copies >= 1
       \/ loop.cols = 1 /\ loop.swaps >= 1

\* A select_blocks call that has returned on the largest board after a cell
\* fell two rows and two columns were shifted.
C18_WitnessLarge ==
    /\ loop.pc = "idle"
    /\ loop.op = "select_blocks"
    /\ loop.rows = Rows /\ loop.cols = Cols
    /\ loop.swaps >= 3
    /\ loop.copies >= 2

----------------------------------------------------------------------------
\* A matrix of exactly Rows rows of Cols cells, each cell 0 or one of the
\* values handed to the constructor.
WellFormed(m) ==
    /\ DOMAIN m = RowIdx
    /\ \A r \in RowIdx :
           /\ DOMAIN m[r] = ColIdx
           /\ \A c \in ColIdx : m[r][c] \in Values \cup {0}

\* C19: in every state reachable from construction with positive values by
\* get_neighbours and select_blocks calls, every cell of the matrix is 0 or
\* one of the values supplied at construction, and the matrix keeps exactly
\* rows rows of cols cells; so it is after each statement of a commit and
\* whenever a listener looks at it.
C19_CellsAndDimensions ==
    /\ \A v \in Values : v > 0
    /\ WellFormed(matrix)
    /\ \A i \in 1 .. Len(steps) : WellFormed(steps[i].matrix)
    /\ \A i \in 1 .. Len(delivered) : WellFormed(delivered[i].matrix)

\* A board after a second commit that moved cells down and a column left,
\* holding empty cells and cells of both values.
C19_Witness ==
    /\ Committed
    /\ before.score > 0
    /\ Len(delivered) > 0
    /\ AfterDown # matrix
    /\ \A v \in Values \cup {0} : \E p \in Cells : matrix[p[1]][p[2]] = v

----------------------------------------------------------------------------
(* Two Same_M objects a and b of one process, beside a second process that
   holds b alone: twin is that second process, with its own generator *)

\* The fields of a Same_M that is not the one under call, as kept in other
\* and in twin.
Held(new) ==
    [matrix |-> new.matrix, score |-> new.score,
     listeners |-> new.listeners, result |-> None]

\* The seeds the two constructors are handed: 0, which "if seed:" takes for
\* no seed, and one that seeds.
BoardSeeds == {s \in Seeds : s < 2}

\* Both processes have imported same_model, hold no Same_M yet, and have
\* their generators in the same state.
InitBoards ==
    /\ rng = 0
    /\ matrix = None
    /\ score = 0
    /\ listeners = << >>
    /\ call = [op |-> "import"]
    /\ before = [matrix |-> None, score |-> 0, listeners |-> << >>,
                 selection |-> None]
    /\ result = None
    /\ steps = << >>
    /\ delivered = << >>
    /\ raised = ""
    /\ python = 3
    /\ other = None
    /\ twin = [rng |-> rng, b |-> None]
    /\ selection = None
    /\ loop = None
    /\ statestack = << >>
    /\ running = FALSE

\* a = Same_M(cols, rows, values, seed), in the first process only.
ConstructA(seed) ==
    /\ matrix = None
    /\ Construct(Cols, Rows, ValuesList, seed)
    /\ UNCHANGED <<python, other, twin, selection, loop,
                   statestack, running>>

\* b = Same_M(cols, rows, values, seed), in each process on its generator.
ConstructB(seed) ==
    /\ other = None
    /\ \E b \in {init(Cols, Rows, ValuesList, seed, rng)} :
       \E t \in {init(Cols, Rows, ValuesList, seed, twin.rng)} :
           /\ other' = Held(b)
           /\ rng' = b.rng
           /\ twin' = [rng |-> t.rng, b |-> Held(t)]
    /\ UNCHANGED <<matrix, score, listeners, call, before, result, steps,
                   delivered, raised, python, selection, loop,
                   statestack, running>>

\* a.register_listener(listener)
RegisterA(listener) ==
    /\ matrix # None
    /\ Len(listeners) < MaxListeners
    /\ register_listener(listener)
    /\ UNCHANGED outside

\* a.get_neighbours(row, col)
PreviewA(row, col) ==
    /\ matrix # None
    /\ GetNeighbours(row, col)
    /\ UNCHANGED outside

\* a.select_blocks(row, col)
SelectA(row, col) ==
    /\ matrix # None
    /\ SelectBlocks(row, col)
    /\ UNCHANGED outside

\* b.get_neighbours(row, col), in each process.
PreviewB(row, col) ==
    /\ other # None
    /\ other' = [other EXCEPT !.result = get_neighbours(other.matrix, row, col)]
    /\ twin' = [twin EXCEPT
                   !.b.result = get_neighbours(twin.b.matrix, row, col)]
    /\ UNCHANGED <<matrix, score, listeners, call, before, result, steps,
                   delivered, raised, rng, python, selection, loop,
                   statestack, running>>

\* b.select_blocks(row, col), in each process.
SelectB(row, col) ==
    /\ other # None
    /\ \E here \in {select_blocks(other.matrix, other.score, other.listeners,
                                  row, col)} :
           other' = [other EXCEPT !.matrix = here.matrix,
                                  !.score  = here.score,
                                  !.result = here.result]
    /\ \E there \in {select_blocks(twin.b.matrix, twin.b.score,
                                   twin.b.listeners, row, col)} :
           twin' = [twin EXCEPT !.b.matrix = there.matrix,
                                !.b.score  = there.score,
                                !.b.result = there.result]
    /\ UNCHANGED <<matrix, score, listeners, call, before, result, steps,
                   delivered, raised, rng, python, selection, loop,
                   statestack, running>>

NextBoards ==
    \/ \E seed \in BoardSeeds : ConstructA(seed)
    \/ \E seed \in BoardSeeds : ConstructB(seed)
    \/ \E l \in ListenerIds : RegisterA(l)
    \/ \E row \in RowIdx, col \in ColIdx : PreviewA(row, col)
    \/ \E row \in RowIdx, col \in ColIdx : SelectA(row, col)
    \/ \E row \in RowIdx, col \in ColIdx : PreviewB(row, col)
    \/ \E row \in RowIdx, col \in ColIdx : SelectB(row, col)

SpecBoards == InitBoards /\ [][NextBoards]_vars

\* C20: Same_M objects share no state: whatever is done with a (constructing
\* it, get_neighbours, select_blocks, register_listener) and however it is
\* interleaved with the calls on b, b has the matrix, score, listeners and
\* results it has in a process where a was never made, the matrix b is
\* constructed with included.
C20_BoardsShareNoState ==
    other # None => other = twin.b

----------------------------------------------------------------------------
(* code-02: StateMachine, the stack of states of the GameEngine *)

\* State machine constants for the StateMachine class
STATE_INTRO == 1
STATE_MENU == 2
STATE_HELP == 3
STATE_ABOUT == 4
STATE_PLAY == 5

States == {STATE_INTRO, STATE_MENU, STATE_HELP, STATE_ABOUT, STATE_PLAY}

\* The deepest stack the calls from outside build.
MaxDepth == 3

\* What a method returns: an int, a bool (an int of value 1 or 0 to ==, of
\* another type) or None.
PyInt(i) == [type |-> "int", val |-> i]
PyBool(b) == [type |-> "bool", val |-> IF b THEN 1 ELSE 0]
PyNone == [type |-> "NoneType", val |-> 0]

\* "not x" on such a value
py_not(x) == x.val = 0

\* statestack[-1]: the last item, IndexError on an empty list.
last_item(stack) ==
    IF Len(stack) = 0
    THEN [ret |-> PyNone, raised |-> "IndexError"]
    ELSE [ret |-> PyInt(stack[Len(stack)]), raised |-> ""]

\* peek without its except clause.
peek_uncaught(stack) ==
    [ret |-> last_item(stack).ret, statestack |-> stack,
     raised |-> last_item(stack).raised]

\* StateMachine.peek: the value returned, the stack left and the exception
\* that leaves the method.
peek(stack) ==
    IF last_item(stack).raised = "IndexError"
    THEN [ret |-> PyNone, statestack |-> stack, raised |-> ""]
    ELSE [ret |-> last_item(stack).ret, statestack |-> stack, raised |-> ""]

\* StateMachine.pop: list.pop() raises IndexError on an empty list and
\* removes the last item of any other; what is returned is
\* len(self.statestack) > 0 of the list that is left.
pop(stack) ==
    IF Len(stack) = 0
    THEN [ret |-> PyNone, statestack |-> stack, raised |-> ""]
    ELSE LET left == SubSeq(stack, 1, Len(stack) - 1)
         IN  [ret |-> PyBool(Len(left) > 0), statestack |-> left,
              raised |-> ""]

\* StateMachine.push
push(stack, state) ==
    [ret |-> PyInt(state), statestack |-> Append(stack, state), raised |-> ""]

\* A new StateMachine.
InitStack ==
    /\ statestack = << >>
    /\ call = [op |-> "__init__", state |-> 0]
    /\ before = [statestack |-> << >>]
    /\ result = PyNone
    /\ raised = ""
    /\ running = FALSE
    /\ matrix = None
    /\ score = 0
    /\ listeners = << >>
    /\ steps = << >>
    /\ delivered = << >>
    /\ rng = 0
    /\ python = 3
    /\ other = None
    /\ twin = None
    /\ selection = None
    /\ loop = None

\* What a call on the StateMachine leaves alone.
beside_stack ==
    <<matrix, score, listeners, steps, delivered, rng, python, other, twin,
      selection, loop, running>>

\* A call from outside that returned done.
Returned(op, state, done) ==
    /\ call' = [op |-> op, state |-> state]
    /\ before' = [statestack |-> statestack]
    /\ statestack' = done.statestack
    /\ result' = done.ret
    /\ raised' = done.raised
    /\ UNCHANGED beside_stack

Peek == raised = "" /\ Returned("peek", 0, peek(statestack))

Pop == raised = "" /\ Returned("pop", 0, pop(statestack))

Push(state) ==
    /\ raised = ""
    /\ Len(statestack) < MaxDepth
    /\ Returned("push", state, push(statestack, state))

NextStack ==
    \/ Peek
    \/ Pop
    \/ \E state \in States : Push(state)

SpecStack == InitStack /\ [][NextStack]_vars

\* C21: pop() on a non-empty stack returns the state that was on top and
\* removes it from the stack; so a pop() made right after push(s) returns s
\* and leaves the stack as it was before the push.
C21_PopReturnsTop ==
    [][call'.op = "pop" =>
          /\ statestack # << >> =>
                 /\ result' = PyInt(statestack[Len(statestack)])
                 /\ statestack' = SubSeq(statestack, 1, Len(statestack) - 1)
          /\ call.op = "push" =>
                 /\ result' = PyInt(call.state)
                 /\ statestack' = before.statestack]_vars

\* C22: peek() returns the top state and leaves the stack as it is; peek()
\* and pop() on an empty stack return None and leave the stack empty; no push,
\* pop or peek ends in an exception.
C22_PeekAndEmptyStack ==
    /\ raised = ""
    /\ call.op = "peek" =>
           /\ statestack = before.statestack
           /\ result = IF statestack = << >> THEN PyNone
                       ELSE PyInt(statestack[Len(statestack)])
    /\ (call.op = "pop" /\ before.statestack = << >>) =>
           /\ result = PyNone
           /\ statestack = << >>

\* A pop() on a stack that pushes and pops have left empty again.
C22_Witness ==
    /\ call.op = "pop"
    /\ before.statestack = << >>
    /\ result = PyNone
    /\ statestack = << >>

----------------------------------------------------------------------------
(* code-02: the events, and GameEngine, Keyboard and GraphicalView as the
   listeners of one EventManager *)

\* The events of eventmanager; state is the state of a StateChangeEvent.
QuitEvent == [ev |-> "QuitEvent", state |-> PyNone]
TickEvent == [ev |-> "TickEvent", state |-> PyNone]
InitializeEvent == [ev |-> "InitializeEvent", state |-> PyNone]
InputEvent == [ev |-> "InputEvent", state |-> PyNone]
StateChangeEvent(state) == [ev |-> "StateChangeEvent", state |-> state]

\* The process is kept in a record es:
\*   statestack     GameEngine.state.statestack
\*   running        GameEngine.running
\*   isinitialized  GraphicalView.isinitialized
\*   listeners      the listeners of the EventManager, in registration order
\*   queue          the events pygame holds for the next pygame.event.get()
\*   posted         the events posted to the EventManager, in order, each with
\*                  the listener that posted it and the depth of the stack
\*                  when it was posted
\*   handled        for each key press Keyboard.notify went through: the
\*                  key, the state handlers called with it, and the stack
\*                  before and after

\* EventManager.post(event) by the listener named by: the event goes to
\* every registered listener, in registration order, before post returns;
\* deliver is the loop over the listeners from the i-th on.
RECURSIVE post(_, _, _)
RECURSIVE deliver(_, _, _)

\* GameEngine.notify posting the QuitEvent when pop() says a state is left.
GameEngine_notify_quitting_early(es, event) ==
    LET heard == IF event.ev = "QuitEvent"
                 THEN [es EXCEPT !.running = FALSE] ELSE es
    IN  IF event.ev = "StateChangeEvent"
        THEN IF py_not(event.state)
             THEN LET popped == pop(heard.statestack)
                      after  == [heard EXCEPT !.statestack = popped.statestack]
                  IN  IF ~py_not(popped.ret)
                      THEN post(after, QuitEvent, "GameEngine")
                      ELSE after
             ELSE [heard EXCEPT !.statestack =
                                    push(@, event.state.val).statestack]
        ELSE heard

\* GameEngine.notify
GameEngine_notify(es, event) ==
    LET heard == IF event.ev = "QuitEvent"
                 THEN [es EXCEPT !.running = FALSE] ELSE es
    IN  IF event.ev = "StateChangeEvent"
        THEN IF py_not(event.state)
             THEN \* pop request
                  LET popped == pop(heard.statestack)
                      after  == [heard EXCEPT !.statestack = popped.statestack]
                  IN  IF py_not(popped.ret)
                      THEN post(after, QuitEvent, "GameEngine")
                      ELSE after
             ELSE [heard EXCEPT !.statestack =
                                    push(@, event.state.val).statestack]
        ELSE heard

\* The keys of pygame the handlers tell apart; K_a stands for every other.
Keys == {"K_ESCAPE", "K_SPACE", "K_RETURN", "K_F1", "K_a"}

\* The pygame events: window close, a key press, and MOUSEMOTION for every
\* other type.
PygameEvents ==
    {[type |-> "QUIT", key |-> ""], [type |-> "MOUSEMOTION", key |-> ""]}
        \cup {[type |-> "KEYDOWN", key |-> k] : k \in Keys}

\* Keyboard.keydownmenu
keydownmenu(es, key) ==
    LET escaped == IF key = "K_ESCAPE"
                   THEN post(es, StateChangeEvent(PyNone), "Keyboard") ELSE es
    IN  IF key = "K_SPACE"
        THEN post(escaped, StateChangeEvent(PyInt(STATE_PLAY)), "Keyboard")
        ELSE escaped

\* Keyboard.keydownhelp
keydownhelp(es, key) ==
    IF key \in {"K_ESCAPE", "K_SPACE", "K_RETURN"}
    THEN post(es, StateChangeEvent(PyNone), "Keyboard")
    ELSE es

\* Keyboard.keydownplay
keydownplay(es, key) ==
    LET escaped == IF key = "K_ESCAPE"
                   THEN post(es, StateChangeEvent(PyNone), "Keyboard") ELSE es
    IN  IF key = "K_F1"
        THEN post(escaped, StateChangeEvent(PyInt(STATE_HELP)), "Keyboard")
        ELSE post(escaped, InputEvent, "Keyboard")

\* The else branch reading the state anew before each comparison.
keydown_rereading(es, key) ==
    LET menu == IF peek(es.statestack).ret = PyInt(STATE_MENU)
                THEN keydownmenu(es, key) ELSE es
        play == IF peek(menu.statestack).ret = PyInt(STATE_PLAY)
                THEN keydownplay(menu, key) ELSE menu
        help == IF peek(play.statestack).ret = PyInt(STATE_HELP)
                THEN keydownhelp(play, key) ELSE play
        called == (IF peek(es.statestack).ret = PyInt(STATE_MENU)
                   THEN << "keydownmenu" >> ELSE << >>)
                  \o (IF peek(menu.statestack).ret = PyInt(STATE_PLAY)
                      THEN << "keydownplay" >> ELSE << >>)
                  \o (IF peek(play.statestack).ret = PyInt(STATE_HELP)
                      THEN << "keydownhelp" >> ELSE << >>)
    IN  [help EXCEPT !.handled =
                         Append(@, [key |-> key, handlers |-> called,
                                    from |-> es.statestack,
                                    to |-> help.statestack])]

\* The else branch of a key press in Keyboard.notify: currentstate is read
\* once, then compared with the three states in turn.
keydown(es, key) ==
    LET currentstate == peek(es.statestack).ret
        menu == IF currentstate = PyInt(STATE_MENU)
                THEN keydownmenu(es, key) ELSE es
        play == IF currentstate = PyInt(STATE_PLAY)
                THEN keydownplay(menu, key) ELSE menu
        help == IF currentstate = PyInt(STATE_HELP)
                THEN keydownhelp(play, key) ELSE play
        called == (IF currentstate = PyInt(STATE_MENU)
                   THEN << "keydownmenu" >> ELSE << >>)
                  \o (IF currentstate = PyInt(STATE_PLAY)
                      THEN << "keydownplay" >> ELSE << >>)
                  \o (IF currentstate = PyInt(STATE_HELP)
                      THEN << "keydownhelp" >> ELSE << >>)
    IN  [help EXCEPT !.handled =
                         Append(@, [key |-> key, handlers |-> called,
                                    from |-> es.statestack,
                                    to |-> help.statestack])]

\* for pgev in pygame.event.get(), from the i-th event of the list on.
RECURSIVE for_pgev(_, _, _)
for_pgev(es, got, i) ==
    IF i > Len(got) THEN es
    ELSE IF got[i].type = "QUIT"
         THEN post(es, QuitEvent, "Keyboard")                   \* break
         ELSE IF got[i].type = "KEYDOWN"
              THEN IF got[i].key = "K_ESCAPE"
                   THEN LET popped == post(es, StateChangeEvent(PyNone),
                                            "Keyboard")
                        IN  [popped EXCEPT !.handled =
                                 Append(@, [key |-> got[i].key,
                                            handlers |-> << >>,
                                            from |-> es.statestack,
                                            to |-> popped.statestack])]
                                                                 \* break
                   ELSE for_pgev(keydown(es, got[i].key), got, i + 1)
              ELSE for_pgev(es, got, i + 1)

\* Keyboard.notify; pygame.event.get() empties the queue of pygame.
Keyboard_notify(es, event) ==
    IF event.ev = "TickEvent"
    THEN for_pgev([es EXCEPT !.queue = << >>], es.queue, 1)
    ELSE es

\* GraphicalView.notify; drawing changes nothing the model or the
\* controller reads.
GraphicalView_notify(es, event) ==
    IF event.ev = "InitializeEvent" THEN [es EXCEPT !.isinitialized = TRUE]
    ELSE IF event.ev = "QuitEvent" THEN [es EXCEPT !.isinitialized = FALSE]
    ELSE es

\* Any other listener of the EventManager, which answers a TickEvent by
\* posting events as Keyboard does: here the queue holds what it posts.
RECURSIVE post_each(_, _, _)
post_each(es, events, i) ==
    IF i > Len(events) THEN es
    ELSE post_each(post(es, events[i], "Listener"), events, i + 1)

Listener_notify(es, event) ==
    IF event.ev = "TickEvent"
    THEN post_each([es EXCEPT !.queue = << >>], es.queue, 1)
    ELSE es

deliver(es, event, i) ==
    IF i > Len(es.listeners) THEN es
    ELSE deliver(
             IF es.listeners[i] = "GameEngine"
             THEN GameEngine_notify(es, event)
             ELSE IF es.listeners[i] = "Keyboard"
                  THEN Keyboard_notify(es, event)
                  ELSE IF es.listeners[i] = "GraphicalView"
                       THEN GraphicalView_notify(es, event)
                       ELSE Listener_notify(es, event),
             event, i + 1)

post(es, event, by) ==
    deliver([es EXCEPT !.posted =
                           Append(@, [ev |-> event.ev, state |-> event.state,
                                      by |-> by,
                                      depth |-> Len(es.statestack)])],
            event, 1)

\* The process as the variables hold it, with got in the queue and nothing
\* posted yet.
Process(got) ==
    [statestack |-> statestack, running |-> running,
     isinitialized |-> other.isinitialized, listeners |-> listeners,
     queue |-> got, posted |-> << >>, handled |-> << >>]

\* What neither the engine, the keyboard nor the view touches.
beside_engine == <<matrix, score, rng, python, twin, selection, listeners>>

\* The step named op, which began in this state and has left the process
\* as es.
Done(op, got, pc, es) ==
    /\ call' = [op |-> op, got |-> got]
    /\ before' = [statestack |-> statestack, running |-> running]
    /\ statestack' = es.statestack
    /\ running' = es.running
    /\ other' = [isinitialized |-> es.isinitialized]
    /\ delivered' = es.posted
    /\ steps' = es.handled
    /\ loop' = [pc |-> pc]
    /\ result' = PyNone
    /\ raised' = ""
    /\ UNCHANGED beside_engine

\* main.run down to gamemodel.run(): the EventManager with the listeners ls
\* registered; run has not been entered.
InitEngine(ls) ==
    /\ listeners = ls
    /\ statestack = << >>
    /\ running = FALSE
    /\ other = [isinitialized |-> FALSE]
    /\ loop = [pc |-> "run"]
    /\ call = [op |-> "main", got |-> << >>]
    /\ before = [statestack |-> << >>, running |-> FALSE]
    /\ result = PyNone
    /\ raised = ""
    /\ steps = << >>
    /\ delivered = << >>
    /\ matrix = None
    /\ score = 0
    /\ rng = 0
    /\ python = 3
    /\ twin = None
    /\ selection = None

\* GameEngine.run down to the while: running = True, the InitializeEvent is
\* posted, STATE_MENU is pushed.
RunBegin ==
    /\ loop.pc = "run"
    /\ \E es \in {post([Process(<< >>) EXCEPT !.running = TRUE],
                       InitializeEvent, "GameEngine")} :
           Done("run", << >>, "while",
                [es EXCEPT !.statestack = push(@, STATE_MENU).statestack])

\* One turn of the while loop of GameEngine.run: running is true and a
\* TickEvent is posted; got is what the listener that polls will get.
Tick(got) ==
    /\ loop.pc = "while"
    /\ running
    /\ \E es \in {post(Process(got), TickEvent, "GameEngine")} :
           Done("tick", got, "while", es)

\* The while test finds running false: run returns.
Return ==
    /\ loop.pc = "while"
    /\ ~running
    /\ Done("return", << >>, "returned", Process(<< >>))

\* The events pygame.event.get() returns in one tick.
MaxBatch == 2
Batches(S) == UNION {[1 .. n -> S] : n \in 0 .. MaxBatch}

NextDemo ==
    \/ RunBegin
    \/ \E got \in Batches(PygameEvents) : Tick(got)
    \/ Return

\* main.run of code-02: the model, the keyboard and the view register in
\* this order.
InitDemo == InitEngine(<< "GameEngine", "Keyboard", "GraphicalView" >>)

SpecDemo == InitDemo /\ [][NextDemo]_vars

IsPrefix(a, b) == Len(a) <= Len(b) /\ a = SubSeq(b, 1, Len(a))

Top(stack) == stack[Len(stack)]
Front(stack) == SubSeq(stack, 1, Len(stack) - 1)

\* C27: once run() has pushed STATE_MENU the stack is, after any key
\* events, a prefix of [STATE_MENU, STATE_PLAY, STATE_HELP]; a key press
\* pushes STATE_PLAY only if it is Space in the menu and STATE_HELP only if it
\* is F1 in play, Escape pops exactly one state whatever the state, and every
\* key press is handled by at most one state handler.
C27_MenuPlayHelp ==
    /\ loop.pc # "run" =>
           IsPrefix(statestack, << STATE_MENU, STATE_PLAY, STATE_HELP >>)
    /\ \A i \in 1 .. Len(steps) :
           /\ Len(steps[i].handlers) <= 1
           /\ IsPrefix(steps[i].from, << STATE_MENU, STATE_PLAY, STATE_HELP >>)
           /\ IsPrefix(steps[i].to, << STATE_MENU, STATE_PLAY, STATE_HELP >>)
           /\ steps[i].from # << >>
           /\ steps[i].to = Append(steps[i].from, STATE_PLAY) <=>
                  (steps[i].key = "K_SPACE" /\ Top(steps[i].from) = STATE_MENU)
           /\ steps[i].to = Append(steps[i].from, STATE_HELP) <=>
                  (steps[i].key = "K_F1" /\ Top(steps[i].from) = STATE_PLAY)
           /\ steps[i].key = "K_ESCAPE" => steps[i].to = Front(steps[i].from)
           /\ Len(steps[i].to) >= Len(steps[i].from) - 1
           /\ Len(steps[i].to) <= Len(steps[i].from) + 1

\* A tick in which F1 opened the help from play and Space closed it again,
\* each key going to one handler.
C27_Witness ==
    /\ call.op = "tick"
    /\ Len(steps) = 2
    /\ steps[1].key = "K_F1"
    /\ steps[1].handlers = << "keydownplay" >>
    /\ steps[1].to = << STATE_MENU, STATE_PLAY, STATE_HELP >>
    /\ steps[2].key = "K_SPACE"
    /\ steps[2].handlers = << "keydownhelp" >>
    /\ statestack = << STATE_MENU, STATE_PLAY >>

----------------------------------------------------------------------------
(* code-02: GameEngine with any listener posting to its EventManager *)

\* The events another listener posts.
PostedEvents ==
    {QuitEvent, InputEvent, StateChangeEvent(PyNone),
     StateChangeEvent(PyInt(STATE_MENU)), StateChangeEvent(PyInt(STATE_PLAY))}

\* The push requests among the events of got.
Pushes(got) == SelectSeq(got, LAMBDA e : ~py_not(e.state))

InitAny == InitEngine(<< "GameEngine", "Listener" >>)

\* An event posted before run() is entered.
PostBeforeRun(event) ==
    /\ loop.pc = "run"
    /\ Len(statestack) + Len(Pushes(<< event >>)) <= MaxDepth
    /\ \E es \in {post(Process(<< >>), event, "Listener")} :
           Done("post", << event >>, "run", es)

\* A turn of the while loop in which the other listener posts got.
TickAny ==
    \E got \in Batches(PostedEvents) :
        /\ Len(statestack) + Len(Pushes(got)) <= MaxDepth
        /\ Tick(got)

NextAny ==
    \/ \E event \in PostedEvents : PostBeforeRun(event)
    \/ RunBegin
    \/ TickAny
    \/ Return

SpecAny == InitAny /\ [][NextAny]_vars

PopRequest(e) == e.ev = "StateChangeEvent" /\ py_not(e.state)
QuitByEngine(e) == e.ev = "QuitEvent" /\ e.by = "GameEngine"

\* C23: with post delivering at once to every listener, a pop request makes
\* GameEngine post a QuitEvent exactly when it removes the last state or finds
\* the stack empty, never while a state remains, and GameEngine posts it for
\* nothing else; once a QuitEvent has been delivered running is False, no
\* TickEvent follows it, and the while loop of run() can only return.
C23_QuitAfterLastState ==
    /\ \A i \in 1 .. Len(delivered) :
           /\ PopRequest(delivered[i]) =>
                  ((/\ i < Len(delivered)
                    /\ QuitByEngine(delivered[(i + 1) % (Len(delivered) + 1)]))
                       <=> delivered[i].depth <= 1)
           /\ QuitByEngine(delivered[i]) =>
                  /\ i > 1
                  /\ PopRequest(delivered[IF i > 1 THEN i - 1 ELSE 1])
                  /\ delivered[i].depth = 0
           /\ delivered[i].ev = "QuitEvent" =>
                  \A j \in (i + 1) .. Len(delivered) :
                      delivered[j].ev # "TickEvent"
    /\ (\E i \in 1 .. Len(delivered) : delivered[i].ev = "QuitEvent")
           => ~running
    /\ (loop.pc = "while" /\ ~running) => (ENABLED Return /\ ~ENABLED TickAny)
    /\ loop.pc = "returned" => (~running /\ ~ENABLED TickAny)

\* A tick with two pop requests on a stack of two states: the first leaves
\* a state and posts nothing, the second removes the last one and the
\* QuitEvent follows; run() is about to return.
C23_Witness ==
    /\ call.op = "tick"
    /\ Len(before.statestack) = 2
    /\ Len(delivered) = 4
    /\ PopRequest(delivered[2]) /\ delivered[2].depth = 2
    /\ PopRequest(delivered[3]) /\ delivered[3].depth = 1
    /\ QuitByEngine(delivered[4])
    /\ statestack = << >>
    /\ ~running
    /\ loop.pc = "while"

----------------------------------------------------------------------------
\* The cells of m that hold v.
CellsOf(m, v) == {p \in Cells : m[p[1]][p[2]] = v}

\* C25: on a board constructed full, after any select_blocks calls the score
\* is twice the number of cells emptied since construction; the score changes
\* exactly when the board changes; a committing call empties as many cells as
\* the matched region has; and the two compaction passes keep, for every
\* value, the number of cells that hold it.
C25_ScoreCountsRemovedCells ==
    /\ score = 2 * (Rows * Cols - Cardinality(NonEmptyCells(matrix)))
    /\ score # before.score <=> matrix # before.matrix
    /\ Committed =>
           /\ Cardinality(NonEmptyCells(before.matrix))
                  - Cardinality(NonEmptyCells(matrix))
                  = Cardinality(Marked(result))
           /\ \A v \in Values :
                  /\ Cardinality(CellsOf(AfterRemove, v))
                         = Cardinality(CellsOf(AfterDown, v))
                  /\ Cardinality(CellsOf(AfterDown, v))
                         = Cardinality(CellsOf(matrix, v))

\* A third or later commit whose two passes both moved cells, with cells of
\* both values left.
C25_Witness ==
    /\ Committed
    /\ before.score >= 8
    /\ AfterRemove # AfterDown
    /\ AfterDown # matrix
    /\ \A v \in Values : CellsOf(matrix, v) # {}

----------------------------------------------------------------------------
\* No call finds a match on m: get_neighbours returns None for every cell.
Terminal(m) == \A p \in Cells : get_neighbours(m, p[1], p[2]) = None

\* Every cell of m is empty or has no neighbour of its value.
Isolated(m) ==
    \A p \in NonEmptyCells(m), q \in NonEmptyCells(m) :
        Adjacent(p, q) => m[p[1]][p[2]] # m[q[1]][q[2]]

\* C26: every game is finite.  Only a select_blocks call that finds a match
\* changes the board, it adds at least 4 to a score that never exceeds
\* 2 * rows * cols, so no sequence of calls holds more than
\* floor(rows * cols / 2) calls that change the board; once that many have
\* been made the board is terminal; a terminal board is one whose cells are
\* all empty or isolated from equal neighbours, and on it no call changes the
\* board or the score.
C26_GamesAreFinite ==
    /\ score <= 2 * Rows * Cols
    /\ matrix # before.matrix => Committed
    /\ Committed => (score >= before.score + 4 /\ matrix # before.matrix)
    /\ score >= 4 * ((Rows * Cols) \div 2) => Terminal(matrix)
    /\ Terminal(matrix) <=> Isolated(matrix)
    /\ Terminal(before.matrix) =>
           /\ matrix = before.matrix
           /\ score = before.score
           /\ result = None

\* The end of a game that left cells on the board: select_blocks on one of
\* them finds no match and changes nothing.
C26_Witness ==
    /\ call.op = "select_blocks"
    /\ result = None
    /\ matrix[call.row][call.col] # 0
    /\ Terminal(matrix)
    /\ Cardinality(NonEmptyCells(matrix)) >= 2
    /\ score >= 12
    /\ matrix = before.matrix

====
